---- MODULE Spec2Model ----
(***************************************************************************)
(* i2csense: drivers for three I2C sensors (BH1750 light sensor, HTU21D    *)
(* temperature/humidity sensor, BME280 environmental sensor).              *)
(*                                                                         *)
(* One driver object is modelled at a time.  `self` holds the fields of    *)
(* the Python object, `dev` what the device last accepted, `bus_log` the   *)
(* bus operations issued by the most recent handler (constructor, update,  *)
(* ...), `raised` the exception that escaped from that handler and `pc`    *)
(* the life-cycle position of the object.  Every handler is one action;    *)
(* the outcome of each bus operation (success or OSError) and the bytes    *)
(* the device returns are inputs of the action.                            *)
(*                                                                         *)
(* Floating-point quantities are kept in fixed point: the unit is stated   *)
(* at each definition.                                                     *)
(***************************************************************************)
EXTENDS Integers, Sequences, FiniteSets, TLC

VARIABLES sensor, pc, self, dev, bus_log, raised, ever_valid, call, got

\* ever_valid is a history variable: some update of this object has read a
\* sample from the device successfully.  call is the last call as its caller
\* sees it: the method, the argument passed (where the model varies it) and
\* what it returned or raised (for the methods that return something).  got
\* is what the property read last gave its caller, until the caller goes on.
vars == <<sensor, pc, self, dev, bus_log, raised, ever_valid, call, got>>

(***************************************************************************)
(* Python integer operators on naturals.                                   *)
(***************************************************************************)
RECURSIVE BitAnd(_, _)
BitAnd(a, b) ==
    IF a = 0 \/ b = 0 THEN 0
    ELSE LET a2 == a \div 2
             b2 == b \div 2
         IN  (a % 2) * (b % 2) + 2 * BitAnd(a2, b2)

RECURSIVE BitOr(_, _)
BitOr(a, b) ==
    IF a = 0 THEN b
    ELSE IF b = 0 THEN a
    ELSE LET a2 == a \div 2
             b2 == b \div 2
         IN  (IF a % 2 = 1 \/ b % 2 = 1 THEN 1 ELSE 0) + 2 * BitOr(a2, b2)

RECURSIVE BitXor(_, _)
BitXor(a, b) ==
    IF a = 0 THEN b
    ELSE IF b = 0 THEN a
    ELSE LET a2 == a \div 2
             b2 == b \div 2
         IN  ((a + b) % 2) + 2 * BitXor(a2, b2)

Pow2(n) == 2 ^ n

Shl(a, n) == a * Pow2(n)
Shr(a, n) == a \div Pow2(n)

\* None of Python, and a value held where None may be held: the attributes
\* that start as None hold Some(v) once they are assigned.
None == <<>>
Some(v) == <<v>>

\* No exception escaped from the handler.
NoException == "none"

Call(fn, arg, result) == [fn |-> fn, arg |-> arg, result |-> result]

\* A constructor or an update: no argument or result is recorded.
NoCall == Call("-", None, None)

\* One entry of bus_log: the transport primitive, its register/command
\* argument, the value written (or None) and whether it succeeded.
BusOp(op, reg, val, ok) == [op |-> op, reg |-> reg, val |-> val, ok |-> ok]

(***************************************************************************)
(*                              BH1750                                     *)
(***************************************************************************)
CONTINUOUS_LOW_RES_MODE == "continuous_low_res_mode"
CONTINUOUS_HIGH_RES_MODE_1 == "continuous_high_res_mode_1"
CONTINUOUS_HIGH_RES_MODE_2 == "continuous_high_res_mode_2"
ONE_TIME_HIGH_RES_MODE_1 == "one_time_high_res_mode_1"
ONE_TIME_HIGH_RES_MODE_2 == "one_time_high_res_mode_2"
ONE_TIME_LOW_RES_MODE == "one_time_low_res_mode"

\* name -> <<command byte, continuous sampling>>
OPERATION_MODES ==
    (CONTINUOUS_LOW_RES_MODE :> <<19, TRUE>>)
    @@ (CONTINUOUS_HIGH_RES_MODE_1 :> <<16, TRUE>>)
    @@ (CONTINUOUS_HIGH_RES_MODE_2 :> <<17, TRUE>>)
    @@ (ONE_TIME_LOW_RES_MODE :> <<35, FALSE>>)
    @@ (ONE_TIME_HIGH_RES_MODE_1 :> <<32, FALSE>>)
    @@ (ONE_TIME_HIGH_RES_MODE_2 :> <<33, FALSE>>)

POWER_DOWN == 0
POWER_ON == 1
RESET == 7

\* _light_level is kept in tenths of a lux.  The value `return -1` of
\* _get_result is then:
BadLight == -10

\* Inputs of the BH1750 actions.
BHSensitivities == {0, 30, 31, 69, 254, 255, 500}
BHWords == {0, 4660}
\* Positions of the failing bus operations of a handler: the constructor
\* issues at most 10 operations, update at most 5, set_sensitivity 4.
\* At most MaxFails operations fail within the constructor and within
\* set_sensitivity; any of the operations of update may fail.
MaxFails == 2
FailSets(n) == {F \in SUBSET (1..n) : Cardinality(F) <= MaxFails}
BHInitFails == FailSets(10)
BHUpdateFails == SUBSET (1..5)
BHSensFails == FailSets(4)

\* A BH1750 handler in progress: the object, the device and the log so far.
\* F is the set of positions (within the handler) of the bus operations
\* that raise OSError.
BHCtx(s, d, l) == [s |-> s, d |-> d, l |-> l]

BH_set_mode(c, mode, F) ==
    LET ok == (Len(c.l) + 1) \notin F
    IN  BHCtx([c.s EXCEPT !.mode = mode, !.ok = ok],
              IF ok THEN Some(mode) ELSE c.d,
              Append(c.l, BusOp("write_byte", mode, None, ok)))

BH_power_down(c, F) == BH_set_mode(c, POWER_DOWN, F)

BH_power_on(c, F) == BH_set_mode(c, POWER_ON, F)

BH_reset(c, F) == BH_set_mode(BH_power_on(c, F), RESET, F)

\* The clamp without its upper limit.
BH_clamp_no_upper(sensitivity) ==
    IF sensitivity < 31 THEN 31 ELSE sensitivity

BH_clamp(sensitivity) ==
    IF sensitivity < 31 THEN 31
    ELSE IF sensitivity > 254 THEN 254
    ELSE sensitivity

\* set_sensitivity sending four bits of the value in its second byte.
BH_set_sensitivity_low_nibble(c, sensitivity, F) ==
    LET m  == BH_clamp(sensitivity)
        c0 == BHCtx([c.s EXCEPT !.mtreg = m], c.d, c.l)
        c1 == BH_power_on(c0, F)
        c2 == BH_set_mode(c1, BitOr(64, Shr(m, 5)), F)
        c3 == BH_set_mode(c2, BitOr(96, BitAnd(m, 15)), F)
    IN  BH_power_down(c3, F)

BH_set_sensitivity(c, sensitivity, F) ==
    LET m  == BH_clamp(sensitivity)
        c0 == BHCtx([c.s EXCEPT !.mtreg = m], c.d, c.l)
        c1 == BH_power_on(c0, F)
        c2 == BH_set_mode(c1, BitOr(64, Shr(m, 5)), F)
        c3 == BH_set_mode(c2, BitOr(96, BitAnd(m, 31)), F)
    IN  BH_power_down(c3, F)

\* ratio * count in tenths of a lux:
\* count / (1.2 * (mtreg / 69.0) * mode2coeff) = count * 575 / (mtreg * mode2coeff) / 10
BH_lux(s, data) ==
    LET count == BitOr(Shr(data, 8), Shl(BitAnd(data, 255), 8))
        mode2coeff == IF s.high_res THEN 2 ELSE 1
    IN  (count * 575) \div (s.mtreg * mode2coeff)

\* _get_result followed by the assignment to _light_level (line 142).
BH_get_result(c, data, F) ==
    LET ok == (Len(c.l) + 1) \notin F
    IN  BHCtx([c.s EXCEPT !.ok = ok,
                          !.light_level = IF ok THEN BH_lux(c.s, data)
                                          ELSE BadLight],
              c.d,
              Append(c.l, BusOp("read_word_data", c.s.mode,
                               IF ok THEN Some(data) ELSE None, ok)))

BH_needs_reset_ignoring_reading(s) ==
    \/ ~s.continuous_sampling
    \/ s.operation_mode # s.mode

BH_needs_reset(s) ==
    \/ ~s.continuous_sampling
    \/ s.light_level < 0
    \/ s.operation_mode # s.mode

\* update without the _power_down of lines 143-144.
BH_update_stays_on(c, data, F) ==
    LET c1 == IF BH_needs_reset(c.s)
              THEN BH_set_mode(BH_reset(c, F), c.s.operation_mode, F)
              ELSE c
    IN  BH_get_result(c1, data, F)

BH_update(c, data, F) ==
    LET c1 == IF BH_needs_reset(c.s)
              THEN BH_set_mode(BH_reset(c, F), c.s.operation_mode, F)
              ELSE c
        c2 == BH_get_result(c1, data, F)
    IN  IF ~c.s.continuous_sampling THEN BH_power_down(c2, F) ELSE c2

\* Fields set by BH1750.__init__ before its first bus operation.
BH_fields(operation_mode) ==
    LET om == OPERATION_MODES[operation_mode][1]
    IN  [ok |-> FALSE,
         mode |-> None,
         operation_mode |-> om,
         continuous_sampling |-> OPERATION_MODES[operation_mode][2],
         high_res |-> BitAnd(om, 3) = 1,
         low_res |-> BitAnd(om, 3) = 3,
         mtreg |-> None,
         light_level |-> None]

BH_init(operation_mode, sensitivity, data, F) ==
    LET c0 == BHCtx(BH_fields(operation_mode), None, <<>>)
        c1 == BH_set_sensitivity(BH_power_down(c0, F), sensitivity, F)
        c2 == BHCtx([c1.s EXCEPT !.light_level = BadLight], c1.d, c1.l)
    IN  BH_update(c2, data, F)

InitBH ==
    /\ sensor = "bh1750"
    /\ pc = "new"
    /\ self = None
    /\ dev = None
    /\ bus_log = <<>>
    /\ raised = NoException
    /\ ever_valid = FALSE
    /\ call = NoCall
    /\ got = None

\* I2cBaseClass.sample_ok, which BH1750 inherits.
BH_sample_ok(s) == s.ok

ReadOk(log) == \E i \in DOMAIN log : log[i].op = "read_word_data" /\ log[i].ok
ReadFailed(log) == \E i \in DOMAIN log : log[i].op = "read_word_data" /\ ~log[i].ok

BHInstall(c, cl) ==
    /\ self' = c.s
    /\ dev' = c.d
    /\ bus_log' = c.l
    /\ raised' = NoException
    /\ ever_valid' = (ever_valid \/ ReadOk(c.l))
    /\ call' = cl
    /\ UNCHANGED <<sensor, got>>

\* The constructor with its sensitivity argument drawn from a set.
BHConstructWith(sensitivities) ==
    /\ sensor = "bh1750" /\ pc = "new"
    /\ \E om \in DOMAIN OPERATION_MODES, sens \in sensitivities,
          data \in BHWords, F \in BHInitFails :
          \E c \in {BH_init(om, sens, data, F)} :
             BHInstall(c, Call("__init__", Some(sens), None))
    /\ pc' = "ready"

BHConstruct == BHConstructWith(BHSensitivities)

BHUpdate ==
    /\ sensor = "bh1750" /\ pc = "ready"
    /\ \E data \in BHWords, F \in BHUpdateFails :
          \E c \in {BH_update(BHCtx(self, dev, <<>>), data, F)} :
             BHInstall(c, NoCall)
    /\ pc' = "ready"

BHSetSensitivity ==
    /\ sensor = "bh1750" /\ pc = "ready"
    /\ \E sens \in BHSensitivities, F \in BHSensFails :
          \E c \in {BH_set_sensitivity(BHCtx(self, dev, <<>>), sens, F)} :
             BHInstall(c, Call("set_sensitivity", Some(sens), None))
    /\ pc' = "ready"

NextBH == BHConstruct \/ BHUpdate \/ BHSetSensitivity

SpecBH == InitBH /\ [][NextBH]_vars

\* The constructor on its own, for every sensitivity from below the lower
\* limit of the clamp to above its upper limit.
BringUpSensitivities == 25..260

BHBringUp == BHConstructWith(BringUpSensitivities)

NextBringUp == BHBringUp

SpecBringUp == InitBH /\ [][NextBringUp]_vars

(***************************************************************************)
(*                              HTU21D                                     *)
(***************************************************************************)
CMD_READ_TEMP_HOLD == 227
CMD_READ_HUM_HOLD == 229
CMD_READ_TEMP_NOHOLD == 243
CMD_READ_HUM_NOHOLD == 245
CMD_SOFT_RESET == 254

\* _temperature and _humidity are kept in hundredths (of a degree, of a
\* percent).  The initial and failure value -255 is then:
HTUSentinel == -25500

\* Inputs of the HTU21D actions: the 3-byte blocks the device returns (the
\* last one of the set has a wrong CRC byte) and the position, 1..4, of the
\* first bus operation of update that raises OSError (0: none).
HTUBlocks == {<<104, 58, 124>>, <<78, 133, 107>>, <<0, 0, 0>>,
              <<255, 252, 126>>, <<104, 58, 125>>}
HTUFailAt == 0..4

\* The blocks the device gets to return when the operation at failAt fails:
\* a block that is never read is not an input.
HTUNoBlock == <<0, 0, 0>>
HTUTempBlocks(failAt) == IF failAt \in 1..2 THEN {HTUNoBlock} ELSE HTUBlocks
HTUHumBlocks(failAt) == IF failAt \in 1..4 THEN {HTUNoBlock} ELSE HTUBlocks

\* -46.85 + 175.72 * sensor_temp / 65536.0, in hundredths of a degree
HTU_calc_temp(sensor_temp) == -4685 + (17572 * sensor_temp) \div 65536

\* -6.0 + 125.0 * sensor_humid / 65536.0, in hundredths of a percent
HTU_calc_humid(sensor_humid) == -600 + (12500 * sensor_humid) \div 65536

\* rh_actual - 0.15 * (25 - temp_actual), in hundredths of a percent
HTU_temp_coefficient(rh_actual, temp_actual) ==
    rh_actual - (15 * (2500 - temp_actual)) \div 100

\* The loop of _crc8check: for i in range(i, 16).
RECURSIVE HTU_crc_loop(_, _, _)
HTU_crc_loop(remainder, divisor, i) ==
    IF i = 16 THEN remainder
    ELSE LET r == IF BitAnd(remainder, Shl(1, 23 - i)) # 0
                  THEN BitXor(remainder, divisor)
                  ELSE remainder
             d == Shr(divisor, 1)
         IN  HTU_crc_loop(r, d, i + 1)

\* _crc8check with the divisor 0x98800 for 0x988000.
HTU_crc8check_divisor(value) ==
    LET remainder == BitOr(Shl(Shl(value[1], 8) + value[2], 8), value[3])
        divisor == 624640
    IN  HTU_crc_loop(remainder, divisor, 0) = 0

HTU_crc8check(value) ==
    LET remainder == BitOr(Shl(Shl(value[1], 8) + value[2], 8), value[3])
        divisor == 9994240
    IN  HTU_crc_loop(remainder, divisor, 0) = 0

\* _crc8check of each block the device may return, computed once.
HTUCrcOk == [b \in HTUBlocks |-> HTU_crc8check(b)]

HTU_sample_ok(s) ==
    s.ok /\ s.temperature > -100 * 100 /\ s.humidity > -1 * 100

BusReads == {"read_byte_data", "read_word_data", "read_i2c_block_data"}

\* The bus operations of update, in order.
HTU_update_ops(buf_t, buf_h) ==
    << BusOp("write_byte", CMD_READ_TEMP_NOHOLD, None, TRUE),
       BusOp("read_i2c_block_data", CMD_READ_TEMP_HOLD, buf_t, TRUE),
       BusOp("write_byte", CMD_READ_HUM_NOHOLD, None, TRUE),
       BusOp("read_i2c_block_data", CMD_READ_HUM_HOLD, buf_h, TRUE) >>

\* The log of a sequence of operations of which the one at position failAt
\* raises OSError (0: none does): the operations after it are not issued.
LogUntilFailure(ops, failAt) ==
    IF failAt = 0 \/ failAt > Len(ops) THEN ops
    ELSE [i \in 1..failAt |->
            IF i = failAt
            THEN BusOp(ops[i].op, ops[i].reg,
                       IF ops[i].op \in BusReads THEN None ELSE ops[i].val,
                       FALSE)
            ELSE ops[i]]

HTU_raw(buf) == BitAnd(BitOr(Shl(buf[1], 8), buf[2]), 65532)

\* The humidity without the clamps of lines 119-120.
HTU_rh_final_unclamped(buf_h, temperature) ==
    HTU_temp_coefficient(HTU_calc_humid(HTU_raw(buf_h)), temperature)

HTU_rh_final(buf_h, temperature) ==
    LET rh_actual == HTU_calc_humid(HTU_raw(buf_h))
        rh_final == HTU_temp_coefficient(rh_actual, temperature)
    IN  IF rh_final > 100 * 100 THEN 100 * 100
        ELSE IF rh_final < 0 THEN 0
        ELSE rh_final

\* The conversion with the `self._humidity = -255` of line 123 left out.
HTU_convert_keeps_humidity(s, buf_t, buf_h) ==
    IF HTUCrcOk[buf_t]
    THEN LET temperature == HTU_calc_temp(HTU_raw(buf_t))
         IN  IF HTUCrcOk[buf_h]
             THEN [s EXCEPT !.temperature = temperature,
                            !.humidity = HTU_rh_final(buf_h, temperature)]
             ELSE [s EXCEPT !.temperature = temperature,
                            !.ok = FALSE]
    ELSE [s EXCEPT !.temperature = HTUSentinel, !.ok = FALSE]

\* Lines 110-131 of update: the CRC checks and the conversion.
HTU_convert(s, buf_t, buf_h) ==
    IF HTUCrcOk[buf_t]
    THEN LET temperature == HTU_calc_temp(HTU_raw(buf_t))
         IN  IF HTUCrcOk[buf_h]
             THEN [s EXCEPT !.temperature = temperature,
                            !.humidity = HTU_rh_final(buf_h, temperature)]
             ELSE [s EXCEPT !.temperature = temperature,
                            !.humidity = HTUSentinel,
                            !.ok = FALSE]
    ELSE [s EXCEPT !.temperature = HTUSentinel, !.ok = FALSE]

\* update storing the sentinels when a bus operation fails.
HTU_update_forgetting(c, buf_t, buf_h, failAt) ==
    LET log == c[2] \o LogUntilFailure(HTU_update_ops(buf_t, buf_h), failAt)
    IN  IF failAt # 0
        THEN <<[c[1] EXCEPT !.ok = FALSE, !.temperature = HTUSentinel,
                            !.humidity = HTUSentinel], log>>
        ELSE <<HTU_convert(c[1], buf_t, buf_h), log>>

\* update: c is <<object, log so far>>.
HTU_update(c, buf_t, buf_h, failAt) ==
    LET log == c[2] \o LogUntilFailure(HTU_update_ops(buf_t, buf_h), failAt)
    IN  IF failAt # 0
        THEN <<[c[1] EXCEPT !.ok = FALSE], log>>
        ELSE <<HTU_convert(c[1], buf_t, buf_h), log>>

\* _soft_reset: its return value and its log.
HTU_soft_reset(resetFails) ==
    <<~resetFails, <<BusOp("write_byte", CMD_SOFT_RESET, None, ~resetFails)>> >>

HTU_init(resetFails, buf_t, buf_h, failAt) ==
    LET r == HTU_soft_reset(resetFails)
        s == [ok |-> r[1], temperature |-> HTUSentinel, humidity |-> HTUSentinel]
    IN  IF s.ok THEN HTU_update(<<s, r[2]>>, buf_t, buf_h, failAt)
        ELSE <<s, r[2]>>

\* The last four entries of the log are a complete update: every operation
\* succeeded and both blocks pass the CRC check.
HTUCleanUpdate(log) ==
    /\ Len(log) >= 4
    /\ \A i \in (Len(log) - 3)..Len(log) : log[i].ok
    /\ log[Len(log) - 3].reg = CMD_READ_TEMP_NOHOLD
    /\ HTUCrcOk[log[Len(log) - 2].val]
    /\ HTUCrcOk[log[Len(log)].val]

InitHTU ==
    /\ sensor = "htu21d"
    /\ pc = "new"
    /\ self = None
    /\ dev = None
    /\ bus_log = <<>>
    /\ raised = NoException
    /\ ever_valid = FALSE
    /\ call = NoCall
    /\ got = None

HTUInstall(c) ==
    /\ self' = c[1]
    /\ bus_log' = c[2]
    /\ raised' = NoException
    /\ ever_valid' = (ever_valid \/ HTUCleanUpdate(c[2]))
    /\ pc' = "ready"
    /\ call' = NoCall
    /\ UNCHANGED <<sensor, dev, got>>

HTUConstruct ==
    /\ sensor = "htu21d" /\ pc = "new"
    /\ \E resetFails \in BOOLEAN, failAt \in HTUFailAt :
        \E buf_t \in HTUTempBlocks(failAt), buf_h \in HTUHumBlocks(failAt) :
          \E c \in {HTU_init(resetFails, buf_t, buf_h, failAt)} : HTUInstall(c)

HTUUpdate ==
    /\ sensor = "htu21d" /\ pc = "ready"
    /\ \E failAt \in HTUFailAt :
        \E buf_t \in HTUTempBlocks(failAt), buf_h \in HTUHumBlocks(failAt) :
          \E c \in {HTU_update(<<self, <<>> >>, buf_t, buf_h, failAt)} :
             HTUInstall(c)

NextHTU == HTUConstruct \/ HTUUpdate

SpecHTU == InitHTU /\ [][NextHTU]_vars

(***************************************************************************)
(*                              BME280                                     *)
(***************************************************************************)
DEFAULT_T_STANDBY == 5
DEFAULT_FILTER_MODE == 0
MODE_FORCED == 2
MODE_NORMAL == 3

\* Units of the model: temperatures (and delta_temp) in thousandths of a
\* degree, humidity in hundredths of a percent, pressure in hundredths of a
\* hPa; _temp_fine in its own unit (1/5120 degree).  A float division is an
\* integer division here; on the calibration image and the data bytes the
\* model draws, the quotients of the temperature formula are exact.

\* Inputs of the BME280 actions.
BMEOversamplings == {0, 1}
BMEModes == {MODE_FORCED, MODE_NORMAL}
BMEDeltaTemps == {-1, 0, 1}

\* The 32 calibration registers, in the order _populate_calibration_data
\* reads them: 0x88..0x9F, 0xA1, 0xE1..0xE7.
BMECalRegs ==
    [i \in 1..32 |-> IF i <= 24 THEN 136 + (i - 1)
                     ELSE IF i = 25 THEN 161
                     ELSE 225 + (i - 26)]

\* A register image of a device: dig_T1 = 8192, dig_T2 = 12800,
\* dig_P1 = 36477, dig_H2 = 16384, every other coefficient 0.
BMECalImage ==
    [i \in 1..32 |-> CASE i = 2 -> 32
                       [] i = 4 -> 50
                       [] i = 7 -> 125
                       [] i = 8 -> 142
                       [] i = 27 -> 64
                       [] OTHER -> 0]

\* Position (1..32) of the calibration read that raises OSError; 0: none.
BMECalFailAt == {0, 1, 26}

\* Number of status reads that report "measuring" before one reports idle.
MaxPolls == 1

\* The data registers 0xF7..0xFE: pressure msb, temperature msb and humidity
\* lsb are drawn, the other bytes are 0.
BMEPressMsb == {176, 255}
BMETempMsb == {0, 160}
BMEHumLsb == {0, 200}
BMEData(pm, tm, hl) == <<pm, 0, 0, tm, 0, 0, 0, hl>>
BMEDataSet == {BMEData(pm, tm, hl) : pm \in BMEPressMsb, tm \in BMETempMsb,
                                     hl \in BMEHumLsb}
BMENoData == BMEData(176, 0, 0)

\* Lines 151-155: the 32 reads and the bytes they return.
BMECalReads ==
    [i \in 1..32 |->
        BusOp("read_byte_data", BMECalRegs[i], Some(BMECalImage[i]), TRUE)]

\* Lines 233-234: the reads of the data registers 0xF7..0xFE and the bytes
\* they return, for each data block the device may hold.
BMEDataReads ==
    [data \in BMEDataSet |->
        [i \in 1..8 |->
            BusOp("read_byte_data", 247 + (i - 1), Some(data[i]), TRUE)]]

\* x ^ m of Python for m >= 0 and any integer x.
PyXor(x, m) == IF x >= 0 THEN BitXor(x, m) ELSE -BitXor(-x - 1, m) - 1

\* The sign extension without its final + 1.
BME_sign16_ones_complement(v) ==
    IF BitAnd(v, 32768) # 0 THEN PyXor(-v, 65535) ELSE v

\* if v & 0x8000: v = (-v ^ 0xFFFF) + 1
BME_sign16(v) == IF BitAnd(v, 32768) # 0 THEN PyXor(-v, 65535) + 1 ELSE v

\* (raw_data[hi] << 8) | raw_data[lo], with Python's indices
BME_word(raw_data, hi, lo) == BitOr(Shl(raw_data[hi + 1], 8), raw_data[lo + 1])

\* Lines 163-199: the tables built from the 32 bytes.  The sign loops run
\* over range(1, 2), range(1, 8) and range(0, 6).
BME_parse_t(raw_data) ==
    LET t == <<BME_word(raw_data, 1, 0), BME_word(raw_data, 3, 2),
               BME_word(raw_data, 5, 4)>>
    IN  [i \in 1..3 |-> IF i - 1 \in 1..1 THEN BME_sign16(t[i]) ELSE t[i]]

BME_parse_p(raw_data, with_pressure) ==
    IF ~with_pressure THEN <<>>
    ELSE LET q == [i \in 1..9 |-> BME_word(raw_data, 2 * i + 5, 2 * i + 4)]
         IN  [i \in 1..9 |-> IF i - 1 \in 1..7 THEN BME_sign16(q[i]) ELSE q[i]]

BME_parse_h(raw_data, with_humidity) ==
    IF ~with_humidity THEN <<>>
    ELSE LET h == << raw_data[25],
                     BME_word(raw_data, 26, 25),
                     raw_data[28],
                     BitOr(Shl(raw_data[29], 4), BitAnd(15, raw_data[30])),
                     BitOr(Shl(raw_data[31], 4),
                           BitAnd(Shr(raw_data[30], 4), 15)),
                     raw_data[32] >>
         IN  [i \in 1..6 |-> BME_sign16(h[i])]

\* Lines 163-203 on the image the device holds, computed once for each
\* setting of _with_pressure and _with_humidity.
BMETables ==
    [with_pressure \in BOOLEAN, with_humidity \in BOOLEAN |->
        [t |-> BME_parse_t(BMECalImage),
         h |-> BME_parse_h(BMECalImage, with_humidity),
         p |-> BME_parse_p(BMECalImage, with_pressure)]]

\* _populate_calibration_data: <<object, log>>.  A failing read leaves the
\* tables as they were.
BME_populate_calibration_data(s, calFail) ==
    LET reads == BMECalReads
        tables == BMETables[s.with_pressure, s.with_humidity]
    IN  IF calFail # 0
        THEN <<s, LogUntilFailure(reads, calFail)>>
        ELSE <<[s EXCEPT !.calibration_t = Some(tables.t),
                         !.calibration_h = Some(tables.h),
                         !.calibration_p = Some(tables.p)],
               reads>>

\* _compensate_temperature: <<temp, _temp_fine>>.
BME_compensate_temperature(s, adc_t) ==
    LET cal == s.calibration_t[1]
        var_1 == ((adc_t \div 16384) - (cal[1] \div 1024)) * cal[2]
        x == (adc_t \div 131072) - (cal[1] \div 8192)
        var_2 == x * x * cal[3]
        temp_fine == var_1 + var_2
    IN  IF s.delta_temp # 0
        THEN LET temp == (temp_fine * 1000) \div 5120 + s.delta_temp
             IN  <<temp, (temp * 5120) \div 1000>>
        ELSE <<(temp_fine * 1000) \div 5120, temp_fine>>

\* _compensate_pressure, in hundredths of a hPa (Pa): `return pressure / 100`
\* (hPa) is the value computed before it in Pa.
BME_compensate_pressure(s, adc_p) ==
    LET cal == s.calibration_p[1]
        v1a == (s.temp_fine[1] \div 2) - 64000
        sq == (v1a \div 4) * (v1a \div 4)
        v2a == (sq \div 2048) * cal[6]
        v2b == v2a + (v1a * cal[5]) * 2
        v2c == (v2b \div 4) + cal[4] * 65536
        v1b == ((cal[3] * (sq \div 8192)) \div 8) + ((cal[2] * v1a) \div 2)
        v1c == v1b \div 262144
        v1d == ((32768 + v1c) * cal[1]) \div 32768
    IN  IF v1d = 0 THEN 0
        ELSE LET p0 == ((1048576 - adc_p) - (v2c \div 4096)) * 3125
                 \* pressure < 0x80000000
                 p1 == IF p0 \div 2 < 1073741824
                       THEN (p0 * 2) \div v1d
                       ELSE (p0 \div v1d) * 2
                 v1e == (cal[9] * (((p1 \div 8) * (p1 \div 8)) \div 8192)) \div 4096
                 v2d == ((p1 \div 4) * cal[8]) \div 8192
             IN  p1 + ((v1e + v2d + cal[7]) \div 16)

\* _compensate_humidity, in hundredths of a percent.
BME_compensate_humidity(s, adc_h) ==
    LET cal == s.calibration_h[1]
        var_h0 == s.temp_fine[1] - 76800
    IN  IF var_h0 = 0 THEN 0
        ELSE LET a == adc_h - (cal[4] * 64 + (cal[5] * var_h0) \div 16384)
                 \* 1024 * (1.0 + H3 / 67108864.0 * var_h)
                 f3 == 1024 + (cal[3] * var_h0) \div 65536
                 \* 1024 * (1.0 + H6 / 67108864.0 * var_h * (...))
                 f6 == 1024 + (((cal[6] * var_h0) \div 65536) * f3) \div 1024
                 \* 100 * a * (H2 / 65536.0 * (...))
                 var_h1 == (((((a * cal[2]) \div 64) * 100) \div 1024) * f6) \div 1024
                 \* var_h *= 1.0 - H1 * var_h / 524288.0
                 var_h2 == var_h1 - (((cal[1] * var_h1) \div 512) * var_h1) \div 102400
             IN  IF var_h2 > 100 * 100 THEN 100 * 100
                 ELSE IF var_h2 < 0 THEN 0
                 ELSE var_h2

\* The acceptance test with both ends open.
BME_temperature_in_range_open(temperature) ==
    temperature > -20 * 1000 /\ temperature < 80 * 1000

BME_temperature_in_range(temperature) ==
    temperature >= -20 * 1000 /\ temperature < 80 * 1000

BME_humidity_in_range(humidity) == humidity >= 0 /\ humidity <= 100 * 100

\* The pressure test comparing Pa, not hPa, against 100.
BME_pressure_in_range_pa(pressure) == pressure > 100

BME_pressure_in_range(pressure) == pressure > 100 * 100

\* Lines 243-245: <<pres_raw, temp_raw, hum_raw>> of the eight data bytes.
BME_raw(data) ==
    << BitOr(BitOr(Shl(data[1], 12), Shl(data[2], 4)), Shr(data[3], 4)),
       BitOr(BitOr(Shl(data[4], 12), Shl(data[5], 4)), Shr(data[6], 4)),
       BitOr(Shl(data[7], 8), data[8]) >>

\* BME_raw of each data block the device may return, computed once.
BMERaw == [data \in BMEDataSet |-> BME_raw(data)]

\* Lines 246-263 of update: [s |-> object, raised |-> exception].
\* Subscripting the calibration table while it is None raises TypeError at
\* line 68, after line 246 has cleared _ok.
BME_sample(s, data) ==
    LET raw == BMERaw[data]
        pres_raw == raw[1]
        temp_raw == raw[2]
        hum_raw == raw[3]
        s0 == [s EXCEPT !.ok = FALSE]
    IN  IF s.calibration_t = None
        THEN [s |-> s0, raised |-> "TypeError"]
        ELSE
        LET t == BME_compensate_temperature(s0, temp_raw)
            s1 == [s0 EXCEPT !.temp_fine = Some(t[2])]
            s2 == IF BME_temperature_in_range(t[1])
                  THEN [s1 EXCEPT !.temperature = Some(t[1]), !.ok = TRUE]
                  ELSE s1
            humidity == BME_compensate_humidity(s2, hum_raw)
            s3 == IF ~s2.with_humidity THEN s2
                  ELSE IF BME_humidity_in_range(humidity)
                       THEN [s2 EXCEPT !.humidity = Some(humidity)]
                       ELSE [s2 EXCEPT !.ok = FALSE]
            pressure == BME_compensate_pressure(s3, pres_raw)
            s4 == IF ~s3.with_pressure THEN s3
                  ELSE IF BME_pressure_in_range(pressure)
                       THEN [s3 EXCEPT !.pressure = Some(pressure)]
                       ELSE [s3 EXCEPT !.ok = FALSE]
        IN  [s |-> s4, raised |-> NoException]

BME_reconfigures(s, first_reading) == first_reading \/ ~s.ok

\* Lines 222-226: the three configuration writes.
BME_config_ops(s) ==
    << BusOp("write_byte_data", 242, Some(s.ctrl_hum_reg), TRUE),
       BusOp("write_byte_data", 245, Some(s.config_reg), TRUE),
       BusOp("write_byte_data", 244, Some(s.ctrl_meas_reg), TRUE) >>

\* _take_forced_measurement reading the status once (`if` for `while`).
BME_take_forced_measurement_once(s, nBusy) ==
    << BusOp("write_byte_data", 244, Some(s.ctrl_meas_reg), TRUE),
       BusOp("read_byte_data", 243, Some(IF nBusy > 0 THEN 8 ELSE 0), TRUE) >>

\* _take_forced_measurement when the device reports "measuring" nBusy times.
BME_take_forced_measurement(s, nBusy) ==
    <<BusOp("write_byte_data", 244, Some(s.ctrl_meas_reg), TRUE)>>
    \o [i \in 1..(nBusy + 1) |->
          BusOp("read_byte_data", 243, Some(IF i <= nBusy THEN 8 ELSE 0), TRUE)]

\* Lines 229-234.
BME_measure_ops(s, nBusy, data) ==
    (IF s.mode = 2 THEN BME_take_forced_measurement(s, nBusy) ELSE <<>>)
    \o BMEDataReads[data]

\* The operations of update outside _populate_calibration_data: an OSError of
\* one of them ends update (lines 235-241).
BME_main_ops(s, first_reading, nBusy, data) ==
    (IF BME_reconfigures(s, first_reading) THEN BME_config_ops(s) ELSE <<>>)
    \o BME_measure_ops(s, nBusy, data)

\* update: [s |-> object, log |-> its bus operations, raised |-> exception].
\* mainFail is the position in BME_main_ops of the operation that raises
\* OSError (0: none), calFail the position of the failing calibration read.
BME_update(s, first_reading, calFail, mainFail, nBusy, data) ==
    LET reconf == BME_reconfigures(s, first_reading)
        nConf == IF reconf THEN 3 ELSE 0
        failInConf == mainFail # 0 /\ mainFail <= nConf
        pop == IF reconf /\ ~failInConf
               THEN BME_populate_calibration_data(s, calFail)
               ELSE <<s, <<>> >>
        main == LogUntilFailure(BME_main_ops(s, first_reading, nBusy, data),
                                mainFail)
        log == IF failInConf THEN main
               ELSE SubSeq(main, 1, nConf) \o pop[2]
                    \o SubSeq(main, nConf + 1, Len(main))
    IN  IF mainFail # 0
        THEN [s |-> [pop[1] EXCEPT !.ok = FALSE], log |-> log, raised |-> NoException]
        ELSE LET r == BME_sample(pop[1], data)
             IN  [s |-> r.s, log |-> log, raised |-> r.raised]

\* Fields set by BME280.__init__ before update(True).
BME_fields(osrs_t, osrs_p, osrs_h, mode, delta_temp) ==
    [ok |-> FALSE,
     mode |-> mode,
     ctrl_meas_reg |-> BitOr(BitOr(Shl(osrs_t, 5), Shl(osrs_p, 2)), mode),
     config_reg |-> BitOr(BitOr(Shl(DEFAULT_T_STANDBY, 5),
                                Shl(DEFAULT_FILTER_MODE, 2)), 0),
     ctrl_hum_reg |-> osrs_h,
     osrs_t |-> osrs_t,
     delta_temp |-> delta_temp,
     with_pressure |-> osrs_p > 0,
     with_humidity |-> osrs_h > 0,
     calibration_t |-> None,
     calibration_h |-> None,
     calibration_p |-> None,
     temp_fine |-> None,
     temperature |-> None,
     humidity |-> None,
     pressure |-> None]

\* The inputs of one update that the state allows: the polls of forced mode,
\* the position of the failing operation among those issued (the data
\* registers 0xF8..0xFD are left out), the failing calibration read when the
\* tables are read, and the data bytes when all eight are read.
BMEPollsOf(s) == IF s.mode = 2 THEN 0..MaxPolls ELSE {0}

BMEMainFailAt(s, first_reading, nBusy) ==
    LET ops == BME_main_ops(s, first_reading, nBusy, BMENoData)
    IN  {0} \cup {i \in DOMAIN ops : ops[i].reg \notin 248..253}

BMECalFailOf(s, first_reading, mainFail) ==
    IF BME_reconfigures(s, first_reading) /\ mainFail \notin 1..3
    THEN BMECalFailAt ELSE {0}

BMEDataOf(mainFail) == IF mainFail = 0 THEN BMEDataSet ELSE {BMENoData}

\* The constructor's arguments: the self-heating correction is varied on
\* the default oversamplings and mode.
BMEConfigs ==
    {c \in [osrs_t : BMEOversamplings, osrs_p : BMEOversamplings,
            osrs_h : BMEOversamplings, mode : BMEModes,
            delta_temp : BMEDeltaTemps] :
        c.delta_temp # 0 =>
            (c.osrs_t = 1 /\ c.osrs_p = 1 /\ c.osrs_h = 1 /\ c.mode = MODE_NORMAL)}

InitBME ==
    /\ sensor = "bme280"
    /\ pc = "new"
    /\ self = None
    /\ dev = None
    /\ bus_log = <<>>
    /\ raised = NoException
    /\ ever_valid = FALSE
    /\ call = NoCall
    /\ got = None

\* An exception that escapes from the constructor leaves no object behind.
BMEInstall(r, constructing) ==
    /\ self' = r.s
    /\ bus_log' = r.log
    /\ raised' = r.raised
    /\ ever_valid' = (ever_valid \/ (r.raised = NoException /\ r.s.ok))
    /\ pc' = IF constructing /\ r.raised # NoException THEN "failed" ELSE "ready"
    /\ call' = IF constructing THEN Call("__init__", None, None) ELSE NoCall
    /\ UNCHANGED <<sensor, dev, got>>

BMEStep(s, first_reading) ==
    \E nBusy \in BMEPollsOf(s) :
      \E mainFail \in BMEMainFailAt(s, first_reading, nBusy) :
        \E calFail \in BMECalFailOf(s, first_reading, mainFail),
           data \in BMEDataOf(mainFail) :
          \E r \in {BME_update(s, first_reading, calFail, mainFail, nBusy,
                               data)} :
            BMEInstall(r, first_reading)

BMEConstruct ==
    /\ sensor = "bme280" /\ pc = "new"
    /\ \E c \in BMEConfigs :
          BMEStep(BME_fields(c.osrs_t, c.osrs_p, c.osrs_h, c.mode, c.delta_temp),
                  TRUE)

BMEUpdate ==
    /\ sensor = "bme280" /\ pc = "ready"
    /\ BMEStep(self, FALSE)

NextBME == BMEConstruct \/ BMEUpdate

SpecBME == InitBME /\ [][NextBME]_vars

(***************************************************************************)
(* The static method HTU21D._crc8check on its own: the two data bytes are  *)
(* drawn, the method is applied to the blocks they make with each CRC      *)
(* byte, and to the blocks that differ in one bit from a block that passes.*)
(***************************************************************************)
CrcBytes == {0, 1, 58, 104, 128, 255}

\* The block with bit number `bit` flipped (bit 23: the top bit of value[0],
\* bit 0: the lowest bit of the CRC byte).
FlipBit(value, bit) ==
    [i \in 1..3 |-> IF i = 3 - (bit \div 8)
                    THEN BitXor(value[i], Pow2(bit % 8))
                    ELSE value[i]]

InitCrc ==
    /\ sensor = "htu21d"
    /\ pc = "static"
    /\ self = None
    /\ dev = None
    /\ bus_log = <<>>
    /\ raised = NoException
    /\ ever_valid = FALSE
    /\ got = None
    /\ \E a \in CrcBytes, b \in CrcBytes :
          call = Call("_crc8check", <<a, b>>, None)

\* _crc8check applied to <<a, b, c>> for every CRC byte c: the bytes for which
\* it returns True.
CrcScan ==
    /\ pc = "static" /\ Len(call.arg) = 2 /\ call.result = None
    /\ call' = [call EXCEPT
                  !.result = Some({c \in 0..255 :
                                     HTU_crc8check(call.arg \o <<c>>)})]
    /\ UNCHANGED <<sensor, pc, self, dev, bus_log, raised, ever_valid, got>>

\* _crc8check applied to a block that passes with one of its 24 bits flipped.
CrcFlip ==
    /\ pc = "static" /\ Len(call.arg) = 2 /\ call.result # None
    /\ \E c \in call.result[1], bit \in 0..23 :
          LET value == FlipBit(call.arg \o <<c>>, bit)
          IN  call' = Call("_crc8check", value, Some(HTU_crc8check(value)))
    /\ UNCHANGED <<sensor, pc, self, dev, bus_log, raised, ever_valid, got>>

NextCrc == CrcScan \/ CrcFlip

SpecCrc == InitCrc /\ [][NextCrc]_vars

(***************************************************************************)
(* The sign extension of BME280._populate_calibration_data on its own: one  *)
(* 16-bit calibration word, as assembled from two register bytes, and the   *)
(* value the sign loop leaves in the table.                                 *)
(***************************************************************************)
\* (raw_data[hi] << 8) | raw_data[lo] of two bytes: every 16-bit word.
CalibrationWords == 0..65535

InitSign ==
    /\ sensor = "bme280"
    /\ pc = "static"
    /\ self = None
    /\ dev = None
    /\ bus_log = <<>>
    /\ raised = NoException
    /\ ever_valid = FALSE
    /\ got = None
    /\ \E v \in CalibrationWords : call = Call("sign16", Some(v), None)

\* Lines 187-199: one pass of a sign loop over one word.
SignExtend ==
    /\ pc = "static" /\ call.fn = "sign16" /\ call.result = None
    /\ call' = [call EXCEPT !.result = Some(BME_sign16(call.arg[1]))]
    /\ UNCHANGED <<sensor, pc, self, dev, bus_log, raised, ever_valid, got>>

NextSign == SignExtend

SpecSign == InitSign /\ [][NextSign]_vars

(***************************************************************************)
(* The parsing of BME280._populate_calibration_data on its own: a register *)
(* image whose reads all succeeded, and the three tables built from it.    *)
(***************************************************************************)
\* The 16-bit words drawn for one coefficient.
CalWordValues == {0, 1, 32767, 32768, 32769, 65535}

\* Python's indices in raw_data of the low bytes of the 16-bit coefficients:
\* dig_T1..dig_T3, dig_P1..dig_P9 at 0, 2, .., 22 and dig_H2 at 25.
CalWordAt == {2 * k : k \in 0..11} \cup {25}

\* The image in which the word at `at` is w and every other byte is 0.
CalImageWith(at, w) ==
    [i \in 1..32 |-> IF i - 1 = at THEN w % 256
                     ELSE IF i - 1 = at + 1 THEN w \div 256
                     ELSE 0]

InitCal ==
    /\ sensor = "bme280"
    /\ pc = "static"
    /\ self = None
    /\ dev = None
    /\ bus_log = <<>>
    /\ raised = NoException
    /\ ever_valid = FALSE
    /\ got = None
    /\ \E at \in CalWordAt, w \in CalWordValues,
          with_pressure \in BOOLEAN, with_humidity \in BOOLEAN :
          call = Call("_populate_calibration_data",
                      [raw_data |-> CalImageWith(at, w),
                       with_pressure |-> with_pressure,
                       with_humidity |-> with_humidity],
                      None)

\* Lines 163-203: the tables as they are assigned to the object.
CalPopulate ==
    /\ pc = "static" /\ call.fn = "_populate_calibration_data"
    /\ call.result = None
    /\ call' = [call EXCEPT !.result =
                  Some([t |-> BME_parse_t(call.arg.raw_data),
                        h |-> BME_parse_h(call.arg.raw_data,
                                          call.arg.with_humidity),
                        p |-> BME_parse_p(call.arg.raw_data,
                                          call.arg.with_pressure)])]
    /\ UNCHANGED <<sensor, pc, self, dev, bus_log, raised, ever_valid, got>>

NextCal == CalPopulate

SpecCal == InitCal /\ [][NextCal]_vars

(***************************************************************************)
(* The properties of I2cBaseClass and the overrides of the three drivers,  *)
(* read by the caller between the calls of the driver.  What a read gives  *)
(* is [value, raised]: value is None when the property returned None or    *)
(* raised, Some(v) otherwise.                                              *)
(***************************************************************************)
I2cVariableNotImplemented == "I2cVariableNotImplemented"

Return(value) == [value |-> value, raised |-> NoException]
Raise(exception) == [value |-> None, raised |-> exception]

Quantities == <<"temperature", "humidity", "pressure", "light_level">>

Properties ==
    {"sample_ok", "temperature", "humidity", "pressure", "light_level",
     "current_state_str", "dew_point_temperature"}

\* The decimals of the fixed-point unit of each quantity of each driver.
Decimals(sn, attr) ==
    IF sn = "bme280" /\ attr = "temperature" THEN 3
    ELSE IF attr = "light_level" THEN 1
    ELSE 2

\* n / d rounded to the nearest integer, the ties to the even one.
RoundHalfEven(n, d) ==
    LET q == n \div d
        r == n % d
    IN  IF 2 * r < d THEN q
        ELSE IF 2 * r > d THEN q + 1
        ELSE IF q % 2 = 0 THEN q ELSE q + 1

\* round(value, prec) of a value kept with `have` decimals: the result is
\* kept with prec decimals.
PyRound(value, have, prec) ==
    IF prec >= have THEN value * 10 ^ (prec - have)
    ELSE RoundHalfEven(value, 10 ^ (have - prec))

\* sample_ok: I2cBaseClass.sample_ok, overridden by HTU21D.
Get_sample_ok(sn, s) ==
    IF sn = "htu21d" THEN HTU_sample_ok(s) ELSE s.ok

\* BH1750.light_level: round(_light_level, 1 if _high_res else 0), in tenths
\* of lux.
BH_light_level(s) ==
    IF s.high_res THEN PyRound(s.light_level, 1, 1)
    ELSE 10 * PyRound(s.light_level, 1, 0)

\* The properties of I2cBaseClass, which no driver overrides.
Get_quantity_of_base_class(sn, s, attr) == Raise(I2cVariableNotImplemented)

\* The properties temperature, humidity, pressure and light_level: the one
\* of I2cBaseClass raises, the override of a driver returns its field.
Get_quantity(sn, s, attr) ==
    IF sn = "bh1750"
    THEN IF attr = "light_level" THEN Return(Some(BH_light_level(s)))
         ELSE Raise(I2cVariableNotImplemented)
    ELSE IF sn = "htu21d"
    THEN IF attr = "temperature" THEN Return(Some(s.temperature))
         ELSE IF attr = "humidity" THEN Return(Some(s.humidity))
         ELSE Raise(I2cVariableNotImplemented)
    ELSE IF attr = "temperature" THEN Return(s.temperature)
         ELSE IF attr = "humidity" THEN Return(s.humidity)
         ELSE IF attr = "pressure" THEN Return(s.pressure)
         ELSE Raise(I2cVariableNotImplemented)

\* _get_value_opc_attr: None or Some(the value rounded to prec decimals).
get_value_opc_attr(sn, s, attr, prec) ==
    LET r == Get_quantity(sn, s, attr)
    IN  IF r.raised # NoException \/ r.value = None THEN None
        ELSE Some(PyRound(r.value[1], Decimals(sn, attr), prec))

\* current_state_str: the text is kept as the sequence of its parts, a part
\* being <<quantity, value with 2 decimals>>.
Get_current_state_str(sn, s) ==
    IF Get_sample_ok(sn, s)
    THEN LET Present(attr) == get_value_opc_attr(sn, s, attr, 2) # None
             Part(attr) == <<attr, get_value_opc_attr(sn, s, attr, 2)[1]>>
             shown == SelectSeq(Quantities, Present)
         IN  Return(Some([i \in DOMAIN shown |-> Part(shown[i])]))
    ELSE Return(Some("Bad sample"))

\* dew_point_temperature, with temperature and humidity in thousandths.  The
\* number returned is kept as the pair it is computed from.  The division
\* by temperature + coef_c raises for -235.66, log10 raises for a humidity
\* that is not positive.
Get_dew_point_temperature(sn, s) ==
    LET temperature == get_value_opc_attr(sn, s, "temperature", 3)
        humidity == get_value_opc_attr(sn, s, "humidity", 3)
    IN  IF Get_sample_ok(sn, s) /\ temperature # None /\ humidity # None
        THEN IF temperature[1] + 235660 = 0 THEN Raise("ZeroDivisionError")
             ELSE IF humidity[1] <= 0 THEN Raise("ValueError")
             ELSE Return(Some(<<"dewp", temperature[1], humidity[1]>>))
        ELSE Return(None)

Get(sn, s, attr) ==
    IF attr = "sample_ok" THEN Return(Some(Get_sample_ok(sn, s)))
    ELSE IF attr = "current_state_str" THEN Get_current_state_str(sn, s)
    ELSE IF attr = "dew_point_temperature"
    THEN Get_dew_point_temperature(sn, s)
    ELSE Get_quantity(sn, s, attr)

\* A read that clears the validity flag of the object.
Access_invalidating(attr) ==
    /\ pc \in {"ready", "returned"}
    /\ got' = Some([attr |-> attr, result |-> Get(sensor, self, attr)])
    /\ pc' = "returned"
    /\ self' = [self EXCEPT !.ok = FALSE]
    /\ UNCHANGED <<sensor, dev, bus_log, raised, ever_valid, call>>

\* The caller reads a property of the object it holds.
Access(attr) ==
    /\ pc \in {"ready", "returned"}
    /\ got' = Some([attr |-> attr, result |-> Get(sensor, self, attr)])
    /\ pc' = "returned"
    /\ UNCHANGED <<sensor, self, dev, bus_log, raised, ever_valid, call>>

\* The caller is done with what it read.
CallerProceeds ==
    /\ pc = "returned"
    /\ pc' = "ready"
    /\ got' = None
    /\ UNCHANGED <<sensor, self, dev, bus_log, raised, ever_valid, call>>

InitAccess == InitBH \/ InitHTU \/ InitBME

NextAccess ==
    \/ NextBH
    \/ NextHTU
    \/ NextBME
    \/ \E attr \in Properties : Access(attr)
    \/ CallerProceeds

SpecAccess == InitAccess /\ [][NextAccess]_vars

(***************************************************************************)
(* BME280.update step by step: the part before the status poll, the poll   *)
(* of _take_forced_measurement one status read at a time, and the data     *)
(* reads with the compensation.  pc is "polling" or "reading" while the    *)
(* call is in progress ("..._first" within the constructor).               *)
(***************************************************************************)
\* Line 215: the loop condition, read_byte_data(0xF3) & 0x08, inverted.
BME_measuring_inverted(status) == BitAnd(status, 8) = 0

\* Line 215: the loop goes on while read_byte_data(0xF3) & 0x08 is nonzero.
BME_measuring(status) == BitAnd(status, 8) # 0

BMEPolling == sensor = "bme280" /\ pc \in {"polling", "polling_first"}
BMEReading == sensor = "bme280" /\ pc \in {"reading", "reading_first"}
BMEInUpdate == BMEPolling \/ BMEReading

\* Number of operations of update that precede the first status read (forced
\* mode) or the first data read (normal mode).
BMEPreLen(s, first_reading) ==
    (IF BME_reconfigures(s, first_reading) THEN 3 ELSE 0)
    + (IF s.mode = 2 THEN 1 ELSE 0)

\* Lines 220-230 and 214: the reconfiguration and the write of 0xF4 that starts a
\* forced measurement.  A failure among them ends the update.
BMEBegin(s, first_reading) ==
    \E preFail \in 0..BMEPreLen(s, first_reading) :
      \E calFail \in BMECalFailOf(s, first_reading, preFail) :
        IF preFail # 0
        THEN \E r \in {BME_update(s, first_reading, calFail, preFail, 0,
                                  BMENoData)} :
                BMEInstall(r, first_reading)
        ELSE \E r \in {BME_update(s, first_reading, calFail,
                                  BMEPreLen(s, first_reading) + 1, 0,
                                  BMENoData)} :
                /\ self' = [r.s EXCEPT !.ok = s.ok]
                /\ bus_log' = SubSeq(r.log, 1, Len(r.log) - 1)
                /\ raised' = NoException
                /\ pc' = (IF s.mode = 2 THEN "polling" ELSE "reading")
                         \o (IF first_reading THEN "_first" ELSE "")
                /\ UNCHANGED <<sensor, dev, ever_valid, call, got>>

BMEConstructBegin ==
    /\ sensor = "bme280" /\ pc = "new"
    /\ \E c \in BMEConfigs :
          BMEBegin(BME_fields(c.osrs_t, c.osrs_p, c.osrs_h, c.mode,
                              c.delta_temp), TRUE)

BMEUpdateBegin ==
    /\ sensor = "bme280" /\ pc = "ready"
    /\ BMEBegin(self, FALSE)

BusyReads(log) ==
    Cardinality({i \in DOMAIN log : log[i].reg = 243 /\ log[i].ok
                                    /\ BME_measuring(log[i].val[1])})

\* Lines 215-216 and 235-241: one read of the status register.  Of the reads
\* that keep the loop going, the log holds the first MaxPolls.
BMEPollAnswer(answer) ==
    /\ BMEPolling
    /\ UNCHANGED <<sensor, dev, ever_valid, raised, call, got>>
    /\ IF answer = "fail"
       THEN /\ self' = [self EXCEPT !.ok = FALSE]
            /\ bus_log' = Append(bus_log,
                                 BusOp("read_byte_data", 243, None, FALSE))
            /\ pc' = "ready"
       ELSE LET status == IF answer = "busy" THEN 8 ELSE 0
                entry == BusOp("read_byte_data", 243, Some(status), TRUE)
            IN  /\ self' = self
                /\ IF BME_measuring(status)
                   THEN /\ pc' = pc
                        /\ bus_log' = IF BusyReads(bus_log) < MaxPolls
                                      THEN Append(bus_log, entry)
                                      ELSE bus_log
                   ELSE /\ pc' = IF pc = "polling_first"
                                 THEN "reading_first" ELSE "reading"
                        /\ bus_log' = Append(bus_log, entry)

BMEPoll == \E answer \in {"busy", "idle", "fail"} : BMEPollAnswer(answer)

\* Lines 232-263: the data reads and the compensation.
BMERead ==
    /\ BMEReading
    /\ \E dataFail \in {0, 1, 8} :
         \E data \in BMEDataOf(dataFail) :
           LET log == bus_log \o LogUntilFailure(BMEDataReads[data], dataFail)
           IN  IF dataFail # 0
               THEN BMEInstall([s |-> [self EXCEPT !.ok = FALSE], log |-> log,
                                raised |-> NoException], pc = "reading_first")
               ELSE \E r \in {BME_sample(self, data)} :
                      BMEInstall([s |-> r.s, log |-> log, raised |-> r.raised],
                                 pc = "reading_first")

NextBMESteps == BMEConstructBegin \/ BMEUpdateBegin \/ BMEPoll \/ BMERead

\* The device comes to report the measuring bit clear (unless a bus failure
\* ends the update before), and the update does not stop before the data
\* reads: BMERead is enabled whenever BMEReading holds.
SpecBMESteps ==
    /\ InitBME /\ [][NextBMESteps]_vars
    /\ WF_vars(BMEPollAnswer("idle"))
    /\ []<>~BMEReading

(***************************************************************************)
(* Properties of the BH1750 driver.                                        *)
(***************************************************************************)
BHReady == sensor = "bh1750" /\ pc = "ready"

\* The handler that just returned was an update (the constructor's included):
\* only update reads a word.
BHUpdated(log) == \E i \in DOMAIN log : log[i].op = "read_word_data"

IsWrite(e, byte) == e.op = "write_byte" /\ e.reg = byte

\* The log starts, at position k, with the reset path for target mode om.
ResetPathAt(log, k, om) ==
    /\ Len(log) >= k + 2
    /\ IsWrite(log[k], POWER_ON)
    /\ IsWrite(log[k + 1], RESET)
    /\ IsWrite(log[k + 2], om)

NoWrite(log) == \A i \in DOMAIN log : log[i].op # "write_byte"

\* C3 (as claimed): in every operation mode, when the word read of an update
\* fails, _light_level is -1 and sample_ok is false when the update returns.
C3_ReadFailureInvalid ==
    (BHReady /\ ReadFailed(bus_log))
        => (self.light_level = BadLight /\ ~BH_sample_ok(self))

\* C6 (as claimed): update takes the reset path exactly when the driver is in
\* a one-shot mode, or has never taken a valid sample, or the armed mode
\* differs from the target mode; otherwise it issues the word read alone.
C6_ResetIffNeverValid ==
    [][(BHReady /\ BHUpdated(bus_log'))
        => /\ ResetPathAt(bus_log', 1, self.operation_mode)
                <=> (\/ ~self.continuous_sampling
                     \/ ~ever_valid
                     \/ self.operation_mode # self.mode)
           /\ ~ResetPathAt(bus_log', 1, self.operation_mode)
                => (Len(bus_log') = 1 /\ NoWrite(bus_log'))]_vars

\* C6 (amended): update takes the reset path exactly when the driver is in a
\* one-shot mode, or the stored reading is negative (no sample yet, or the
\* last word read failed), or the recorded armed mode differs from the target
\* mode; otherwise it issues the word read alone.  The update run by the
\* constructor always takes the reset path, and after a continuous-mode
\* handler whose operations all succeeded the next update skips it.
C6_ResetIffNeeded ==
    [][/\ (BHReady /\ BHUpdated(bus_log'))
            => /\ ResetPathAt(bus_log', 1, self.operation_mode)
                    <=> (\/ ~self.continuous_sampling
                         \/ self.light_level < 0
                         \/ self.operation_mode # self.mode)
               /\ ~ResetPathAt(bus_log', 1, self.operation_mode)
                    => (Len(bus_log') = 1 /\ NoWrite(bus_log'))
       /\ (sensor = "bh1750" /\ pc = "new" /\ pc' = "ready")
            => ResetPathAt(bus_log', 6, self'.operation_mode)
       /\ (sensor = "bh1750" /\ pc' = "ready" /\ BHUpdated(bus_log')
             /\ self'.continuous_sampling
             /\ \A i \in DOMAIN bus_log' : bus_log'[i].ok)
            => ~BH_needs_reset(self')]_vars

\* An update in a continuous mode that skipped the reset path.
C6_Witness ==
    /\ BHReady /\ self.continuous_sampling
    /\ Len(bus_log) = 1 /\ bus_log[1].op = "read_word_data" /\ bus_log[1].ok
    /\ ever_valid

\* C16: after the constructor and after every set_sensitivity(s), mtreg is
\* in [31, 254]: it is s when 31 <= s <= 254, 31 when s < 31 and 254 when
\* s > 254; no operation leaves mtreg outside [31, 254].
C16_SensitivityClamp ==
    BHReady =>
        /\ self.mtreg >= 31 /\ self.mtreg <= 254
        /\ call.fn \in {"__init__", "set_sensitivity"} =>
              LET s == call.arg[1]
              IN  /\ (31 <= s /\ s <= 254) => self.mtreg = s
                  /\ s < 31 => self.mtreg = 31
                  /\ s > 254 => self.mtreg = 254

\* set_sensitivity(255) has just returned with mtreg 254.
C16_Witness ==
    /\ BHReady /\ call.fn = "set_sensitivity" /\ call.arg = Some(255)
    /\ self.mtreg = 254

\* Position in the log of the first operation of update: the constructor
\* issues five writes (_power_down, set_sensitivity) before it calls update.
UpdateStart == IF call.fn = "__init__" THEN 6 ELSE 1

\* The update ended with the word read followed by a POWER_DOWN write.
EndsWithPowerDown(log) ==
    /\ Len(log) >= 2
    /\ IsWrite(log[Len(log)], POWER_DOWN)
    /\ log[Len(log) - 1].op = "read_word_data"

NoPowerDownInUpdate(log) ==
    \A i \in UpdateStart..Len(log) : ~IsWrite(log[i], POWER_DOWN)

BringUpWrites(m) ==
    <<POWER_DOWN, POWER_ON, BitOr(64, Shr(m, 5)), BitOr(96, BitAnd(m, 31)),
      POWER_DOWN>>

\* C23: with m the clamped sensitivity, the constructor issues exactly the
\* byte writes POWER_DOWN, POWER_ON, 0x40 | (m >> 5), 0x60 | (m & 0x1F),
\* POWER_DOWN, in this order, before any operation of the initial update,
\* and the two sensitivity bytes determine m:
\* m = ((hi & 0x07) << 5) | (lo & 0x1F).
C23_BringUp ==
    (BHReady /\ call.fn = "__init__") =>
        LET m == self.mtreg
            hi == bus_log[3].reg
            lo == bus_log[4].reg
        IN  /\ m = BH_clamp(call.arg[1]) /\ m \in 31..254
            /\ Len(bus_log) > 5
            /\ \A i \in 1..5 : IsWrite(bus_log[i], BringUpWrites(m)[i])
            /\ ResetPathAt(bus_log, 6, self.operation_mode)
            /\ m = BitOr(Shl(BitAnd(hi, 7), 5), BitAnd(lo, 31))

\* A constructor with sensitivity 200 whose writes 0x46 and 0x68 both
\* failed.
C23_Witness ==
    /\ BHReady /\ call = Call("__init__", Some(200), None)
    /\ IsWrite(bus_log[3], 70) /\ ~bus_log[3].ok
    /\ IsWrite(bus_log[4], 104) /\ ~bus_log[4].ok

\* C24: in every reachable state the record of the armed mode (_mode) is
\* the last command byte the device accepted, a failed write leaving the
\* record unchanged, so that a continuous-mode update never skips the reset
\* path while the device has not accepted the target mode.
C24_ModeRecordIsAccepted ==
    /\ BHReady => dev = Some(self.mode)
    /\ (BHReady /\ self.continuous_sampling /\ call = NoCall
            /\ NoWrite(bus_log)) =>
          dev = Some(self.operation_mode)

\* The commands after which the device does not measure: POWER_DOWN and the
\* two sensitivity bytes, 01000xxx and 011xxxxx.
NotMeasuring == {Some(b) : b \in {POWER_DOWN} \cup 64..71 \cup 96..127}

\* The last command the device accepted before the operation at position i
\* of the log of a handler that started with the device at d.
RECURSIVE AcceptedBefore(_, _, _)
AcceptedBefore(d, log, i) ==
    IF i = 1 THEN d
    ELSE IF log[i - 1].op = "write_byte" /\ log[i - 1].ok
         THEN Some(log[i - 1].reg)
         ELSE AcceptedBefore(d, log, i - 1)

\* C26: in a continuous mode the first update after a call of
\* set_sensitivity takes the full reset path (POWER_ON, RESET, write of the
\* target mode) before the word read, and the device is never read while
\* the last command it accepted is POWER_DOWN or a sensitivity byte.
C26_NeverReadPoweredDown ==
    [][/\ (BHReady /\ self.continuous_sampling
             /\ call.fn = "set_sensitivity" /\ BHUpdated(bus_log')) =>
            /\ ResetPathAt(bus_log', 1, self.operation_mode)
            /\ Len(bus_log') = 4 /\ bus_log'[4].op = "read_word_data"
       /\ (sensor = "bh1750" /\ pc' = "ready" /\ self'.continuous_sampling) =>
            \A i \in DOMAIN bus_log' :
               bus_log'[i].op = "read_word_data" =>
                  AcceptedBefore(dev, bus_log', i) \notin NotMeasuring]_vars

(***************************************************************************)
(* Properties of the HTU21D driver.                                        *)
(***************************************************************************)
HTUReady == sensor = "htu21d" /\ pc = "ready"

\* C2 (as claimed): whatever failed before (the soft reset of the constructor,
\* an earlier update), an update in which all four bus operations succeed and
\* both blocks pass the CRC check returns with sample_ok true.
C2_CleanUpdateRecovers ==
    (HTUReady /\ HTUCleanUpdate(bus_log)) => HTU_sample_ok(self)

\* The last four entries of the log are an update whose four bus operations
\* succeeded; the blocks it read.
HTUAllSucceeded(log) ==
    /\ Len(log) >= 4
    /\ \A i \in (Len(log) - 3)..Len(log) : log[i].ok
    /\ log[Len(log) - 3].reg = CMD_READ_TEMP_NOHOLD
HTUTempBlockRead(log) == log[Len(log) - 2].val
HTUHumBlockRead(log) == log[Len(log)].val

\* C12: after an update whose bus operations all succeeded, if the
\* temperature block fails the CRC then sample_ok is false and the
\* temperature is the sentinel; if only the humidity block fails the CRC then
\* the temperature is the one computed from the new block, the humidity is
\* the sentinel -255 and sample_ok is false.
C12_CrcGating ==
    (HTUReady /\ HTUAllSucceeded(bus_log)) =>
        /\ ~HTU_crc8check(HTUTempBlockRead(bus_log)) =>
              /\ ~HTU_sample_ok(self)
              /\ self.temperature = HTUSentinel
        /\ (HTU_crc8check(HTUTempBlockRead(bus_log))
            /\ ~HTU_crc8check(HTUHumBlockRead(bus_log))) =>
              /\ self.temperature
                    = HTU_calc_temp(HTU_raw(HTUTempBlockRead(bus_log)))
              /\ self.humidity = HTUSentinel
              /\ ~HTU_sample_ok(self)

\* An update that read a good temperature block and a humidity block with a
\* wrong CRC, on a driver that held a humidity before.
C12_Witness ==
    /\ HTUReady /\ HTUAllSucceeded(bus_log)
    /\ ever_valid
    /\ HTU_crc8check(HTUTempBlockRead(bus_log))
    /\ ~HTU_crc8check(HTUHumBlockRead(bus_log))
    /\ self.temperature # HTUSentinel /\ self.humidity = HTUSentinel

\* C13: for every pair of data bytes exactly one CRC byte makes the block
\* pass _crc8check, and a block that passes does not pass any more with any
\* single one of its 24 bits flipped.
C13_CrcSingleBit ==
    (pc = "static" /\ call.result # None) =>
        IF Len(call.arg) = 2
        THEN Cardinality(call.result[1]) = 1
        ELSE call.result = Some(FALSE)

\* A block that passed, checked again with its top bit flipped.
C13_Witness ==
    /\ pc = "static" /\ Len(call.arg) = 3
    /\ call.arg = <<232, 58, 124>>
    /\ call.result = Some(FALSE)

\* C14: in every reachable state, sample_ok is true only if the stored
\* temperature is above -100 and the stored humidity above -1; then neither
\* is the sentinel -255 and the humidity lies in [0, 100].
C14_ValidImpliesValues ==
    (HTUReady /\ HTU_sample_ok(self)) =>
        /\ self.temperature > -10000 /\ self.humidity > -100
        /\ self.temperature # HTUSentinel /\ self.humidity # HTUSentinel
        /\ self.humidity >= 0 /\ self.humidity <= 10000

\* A valid sample whose humidity was clamped to 100.
C14_Witness ==
    /\ HTUReady /\ HTU_sample_ok(self)
    /\ self.humidity = 10000
    /\ HTUAllSucceeded(bus_log)

\* The part of a log that update issued: the constructor's log starts with
\* the soft reset.
HTUUpdatePart(log) ==
    IF log # <<>> /\ IsWrite(log[1], CMD_SOFT_RESET) THEN Tail(log) ELSE log

\* The operations are the first ones of: write temperature command, read
\* block, write humidity command, read block; none follows a failed one.
HTUInOrder(ops) ==
    /\ Len(ops) <= 4
    /\ \A i \in DOMAIN ops :
          /\ ops[i].op = HTU_update_ops(HTUNoBlock, HTUNoBlock)[i].op
          /\ ops[i].reg = HTU_update_ops(HTUNoBlock, HTUNoBlock)[i].reg
          /\ i < Len(ops) => ops[i].ok
    /\ (ops # <<>> /\ ops[Len(ops)].ok) => Len(ops) = 4

\* C22: the bus operations of one update are, in this order, write
\* temperature command, read 3-byte block, write humidity command, read
\* 3-byte block; when one fails the remaining ones are not issued, the
\* stored temperature and humidity keep their values and sample_ok is false.
C22_UpdateProtocol ==
    [][(sensor = "htu21d" /\ pc \in {"new", "ready"} /\ pc' = "ready"
            /\ HTUUpdatePart(bus_log') # <<>>) =>
          LET ops == HTUUpdatePart(bus_log')
              temperature == IF pc = "new" THEN HTUSentinel
                             ELSE self.temperature
              humidity == IF pc = "new" THEN HTUSentinel ELSE self.humidity
          IN  /\ HTUInOrder(ops)
              /\ ~ops[Len(ops)].ok =>
                    /\ self'.temperature = temperature
                    /\ self'.humidity = humidity
                    /\ ~HTU_sample_ok(self')]_vars

\* An update that failed at the humidity command after an earlier sample:
\* the temperature and the humidity of that sample are still stored.
C22_Witness ==
    /\ HTUReady /\ Len(bus_log) = 3 /\ ~bus_log[3].ok
    /\ self.temperature # HTUSentinel /\ self.humidity # HTUSentinel
    /\ ~HTU_sample_ok(self)

(***************************************************************************)
(* Properties of the BME280 driver.                                        *)
(***************************************************************************)
\* A handler of the BME280 object has run / the object exists.
BMELive == sensor = "bme280" /\ pc # "new"
BMEReady == sensor = "bme280" /\ pc = "ready"

BusFailure(log) == \E i \in DOMAIN log : ~log[i].ok
AllSucceeded(log) == log # <<>> /\ \A i \in DOMAIN log : log[i].ok

IsRegWrite(e, reg) == e.op = "write_byte_data" /\ e.reg = reg
IsCalRead(e) ==
    e.op = "read_byte_data" /\ \E i \in 1..32 : e.reg = BMECalRegs[i]
IsDataRead(e) == e.op = "read_byte_data" /\ e.reg \in 247..254
IsIdleStatus(e) ==
    e.op = "read_byte_data" /\ e.reg = 243 /\ e.ok /\ BitAnd(e.val[1], 8) = 0

\* All eight data registers were read: update went on to line 243.
DataWasRead(log) == log # <<>> /\ log[Len(log)].reg = 254 /\ log[Len(log)].ok

\* The eight data bytes the update read, when DataWasRead.
DataRead(log) == [i \in 1..8 |-> log[Len(log) - 8 + i].val[1]]

\* The update entered the reconfiguration of lines 222-227 / went through all
\* of it / did nothing of it.
EntersReconfig(log) == log # <<>> /\ IsRegWrite(log[1], 242)
FullReconfig(log) ==
    /\ Len(log) >= 35
    /\ IsRegWrite(log[1], 242) /\ IsRegWrite(log[2], 245)
    /\ IsRegWrite(log[3], 244)
    /\ \A i \in 1..32 : log[3 + i].op = "read_byte_data"
                        /\ log[3 + i].reg = BMECalRegs[i]
SkipsReconfig(log) ==
    \A i \in DOMAIN log :
        ~IsRegWrite(log[i], 242) /\ ~IsRegWrite(log[i], 245)
        /\ ~IsCalRead(log[i])

\* The values the compensation formulas give for the data the update read,
\* and the range tests of the specification on them.
TempOf(s, log) == BME_compensate_temperature(s, BMERaw[DataRead(log)][2])[1]
HumOf(s, log) == BME_compensate_humidity(s, BMERaw[DataRead(log)][3])
PressOf(s, log) == BME_compensate_pressure(s, BMERaw[DataRead(log)][1])
TempPasses(s, log) == TempOf(s, log) >= -20000 /\ TempOf(s, log) < 80000
HumPasses(s, log) == HumOf(s, log) >= 0 /\ HumOf(s, log) <= 10000
PressPasses(s, log) == PressOf(s, log) > 10000
OthersPass(s, log) ==
    /\ s.with_humidity => HumPasses(s, log)
    /\ s.with_pressure => PressPasses(s, log)

\* C1 (as claimed): whichever bus operations fail, no exception escapes from
\* update, the update run by the constructor included.
C1_UpdateNeverRaises ==
    sensor \in {"bme280", "htu21d", "bh1750"} => raised = NoException

\* C4 (as claimed): an update in which some bus operation failed, a read of a
\* calibration register included, returns with sample_ok false.
C4_BusFailureInvalid ==
    (BMELive /\ BusFailure(bus_log)) => ~self.ok

\* C5 (as claimed): the compensation formulas are evaluated only with the
\* calibration table set, and after a failed calibration read the update
\* issues no further bus operation (it stops before any compensation).
C5_CalibrationBeforeCompensation ==
    BMELive =>
        /\ DataWasRead(bus_log) => self.calibration_t # None
        /\ \A i \in DOMAIN bus_log :
              (IsCalRead(bus_log[i]) /\ ~bus_log[i].ok) => i = Len(bus_log)

\* C7 (as claimed): an update reconfigures (writes 0xF2, 0xF5, 0xF4 and
\* re-reads the calibration registers) when it is the first update or the
\* preceding update had a bus failure.
C7_ReconfigAfterBusFailure ==
    [][(sensor = "bme280" /\ (pc = "new" \/ (pc = "ready" /\ BusFailure(bus_log))))
        => /\ EntersReconfig(bus_log')
           /\ AllSucceeded(bus_log') => FullReconfig(bus_log')]_vars

\* C8 (as claimed): after an update whose bus operations all succeeded,
\* sample_ok is true exactly when every channel with a nonzero oversampling,
\* temperature included, passes its range test.
C8_EnabledChannelsGate ==
    (BMEReady /\ AllSucceeded(bus_log))
        => (self.ok <=> /\ self.osrs_t > 0 => TempPasses(self, bus_log)
                        /\ OthersPass(self, bus_log))

\* C8 (amended): after an update whose bus operations all succeeded,
\* sample_ok is true exactly when the temperature passes its range test
\* (whatever its oversampling) and each of humidity and pressure that has a
\* nonzero oversampling passes its own; a humidity or pressure channel with
\* oversampling 0 is not tested.
C8_TemperatureAlwaysGates ==
    (BMEReady /\ AllSucceeded(bus_log))
        => (self.ok <=> /\ TempPasses(self, bus_log)
                        /\ OthersPass(self, bus_log))

\* Temperature oversampling 0, the other channels disabled, temperature out of
\* range: the sample is invalid.
C8_Witness ==
    /\ BMEReady /\ AllSucceeded(bus_log)
    /\ self.osrs_t = 0 /\ ~self.with_pressure /\ ~self.with_humidity
    /\ ~TempPasses(self, bus_log)
    /\ ~self.ok

\* C9 (as claimed): a compensated temperature of exactly -20 makes the
\* update invalid, -19.999 valid, exactly 80 invalid, 79.999 valid (valid:
\* provided the other enabled channels pass).
C9_BoundaryAsClaimed ==
    (BMEReady /\ AllSucceeded(bus_log))
        => /\ TempOf(self, bus_log) = -20000 => ~self.ok
           /\ (TempOf(self, bus_log) = -19999 /\ OthersPass(self, bus_log))
                => self.ok
           /\ TempOf(self, bus_log) = 80000 => ~self.ok
           /\ (TempOf(self, bus_log) = 79999 /\ OthersPass(self, bus_log))
                => self.ok

\* C9 (amended): a compensated temperature of exactly -20 is accepted and
\* -20.001 makes the update invalid; -19.999 is accepted, exactly 80 makes
\* the update invalid and 79.999 is accepted (accepted: the update is valid
\* provided the other enabled channels pass).
C9_Boundary ==
    (BMEReady /\ AllSucceeded(bus_log))
        => /\ (TempOf(self, bus_log) = -20000 /\ OthersPass(self, bus_log))
                => self.ok
           /\ TempOf(self, bus_log) = -20001 => ~self.ok
           /\ (TempOf(self, bus_log) = -19999 /\ OthersPass(self, bus_log))
                => self.ok
           /\ TempOf(self, bus_log) = 80000 => ~self.ok
           /\ (TempOf(self, bus_log) = 79999 /\ OthersPass(self, bus_log))
                => self.ok

\* An update that computed exactly -20 and is valid.
C9_Witness ==
    /\ BMEReady /\ AllSucceeded(bus_log)
    /\ TempOf(self, bus_log) = -20000
    /\ self.ok /\ self.temperature = Some(-20000)

\* C10: in forced mode a data register is read only after, in the same
\* update, 0xF4 was written and a later read of 0xF3 returned with bit 0x08
\* clear; in normal mode an update that skips the reconfiguration issues no
\* write.
C10_MeasureBeforeRead ==
    BMELive =>
        /\ self.mode = MODE_FORCED =>
              \A i \in DOMAIN bus_log :
                  IsDataRead(bus_log[i]) =>
                      \E j \in 1..(i - 1), k \in 1..(i - 1) :
                          /\ j < k
                          /\ IsRegWrite(bus_log[j], 244) /\ bus_log[j].ok
                          /\ IsIdleStatus(bus_log[k])
        /\ (self.mode = MODE_NORMAL /\ SkipsReconfig(bus_log)) =>
              \A i \in DOMAIN bus_log : bus_log[i].op # "write_byte_data"

\* A forced-mode update that skipped the reconfiguration, found the device
\* measuring at first, and read the data.
C10_Witness ==
    /\ BMEReady /\ self.mode = MODE_FORCED
    /\ SkipsReconfig(bus_log) /\ DataWasRead(bus_log)
    /\ \E i \in DOMAIN bus_log :
          bus_log[i].reg = 243 /\ bus_log[i].ok /\ bus_log[i].val = Some(8)

\* C11: in forced mode every call of update terminates once the device
\* reports the measuring bit clear (or a bus operation fails): an update in
\* progress leads to the update having returned.
C11_UpdateTerminates == BMEInUpdate ~> ~BMEInUpdate

\* A forced-mode update that found the device measuring MaxPolls times, then
\* idle, and returned with the data read.
C11_Witness ==
    /\ BMEReady /\ self.mode = MODE_FORCED
    /\ BusyReads(bus_log) = MaxPolls
    /\ DataWasRead(bus_log)

\* The word whose sign extension has been computed, and the result.
SignExtended == pc = "static" /\ call.fn = "sign16" /\ call.result # None

\* C20: the sign extension of a 16-bit calibration word v is its two's
\* complement value: v below 0x8000 and v - 65536 from 0x8000 on.
C20_SignExtension ==
    SignExtended =>
        LET v == call.arg[1]
        IN  call.result[1] = IF v < 32768 THEN v ELSE v - 65536

\* 0x8001 has been extended to -32767.
C20_Witness ==
    SignExtended /\ call.arg = Some(32769) /\ call.result = Some(-32767)

(***************************************************************************)
(* Properties of the accessors.                                            *)
(***************************************************************************)
\* A property has been read and its caller holds the result.
Read == pc = "returned" /\ got # None

\* The quantities each sensor measures.
Supported(sn) ==
    IF sn = "bh1750" THEN {"light_level"}
    ELSE IF sn = "htu21d" THEN {"temperature", "humidity"}
    ELSE {"temperature", "humidity", "pressure"}

Unsupported(sn) ==
    {Quantities[i] : i \in DOMAIN Quantities} \ Supported(sn)

\* The object comes from its constructor and no read of a sample from the
\* device has succeeded.
NothingSampled ==
    IF sensor = "bh1750" THEN call.fn = "__init__" /\ ~ReadOk(bus_log)
    ELSE IF sensor = "htu21d"
    THEN /\ IsWrite(bus_log[1], CMD_SOFT_RESET)
         /\ \A i \in DOMAIN bus_log :
               bus_log[i].op \in BusReads => ~bus_log[i].ok
    ELSE call.fn = "__init__" /\ ~DataWasRead(bus_log)

\* C15: the accessor of a supported quantity returns None as long as the
\* quantity has not been sampled successfully, as after a construction whose
\* bus operations failed.
C15_NoneBeforeFirstSample ==
    (Read /\ got[1].attr \in Supported(sensor) /\ NothingSampled) =>
        got[1].result = Return(None)

\* C18: the accessor of a quantity the sensor does not measure raises
\* I2cVariableNotImplemented in every state and returns no value; the
\* accessor of a quantity it measures never raises it.
C18_CapabilityTable ==
    Read =>
        /\ got[1].attr \in Unsupported(sensor) =>
              got[1].result = Raise(I2cVariableNotImplemented)
        /\ got[1].attr \in Supported(sensor) =>
              got[1].result.raised # I2cVariableNotImplemented

\* pressure has been read from an HTU21D whose soft reset failed.
C18_Witness ==
    /\ Read /\ sensor = "htu21d" /\ ~self.ok
    /\ got[1].attr = "pressure"
    /\ got[1].result.raised = I2cVariableNotImplemented

\* C19: reading sample_ok, temperature, humidity, pressure, light_level,
\* current_state_str or dew_point_temperature, any number of times, issues
\* no bus operation and leaves every state variable of the driver unchanged.
C19_AccessorsReadOnly ==
    [][(pc' = "returned" \/ pc = "returned") =>
          UNCHANGED <<sensor, self, dev, bus_log, raised, ever_valid>>]_vars

\* The summary has been read from a BME280 after an update that succeeded.
C19_Witness ==
    /\ Read /\ sensor = "bme280" /\ self.ok /\ AllSucceeded(bus_log)
    /\ got[1].attr = "current_state_str"
    /\ Len(got[1].result.value[1]) = 3

\* C25: in every reachable state of an HTU21D or a BME280 with sample_ok
\* true and a humidity present, the humidity handed to the logarithm is
\* strictly positive, and dew_point_temperature returns a number or None
\* and never raises.
C25_DewPointNeverFails ==
    (sensor \in {"htu21d", "bme280"} /\ pc \in {"ready", "returned"}) =>
        /\ (Get_sample_ok(sensor, self)
              /\ get_value_opc_attr(sensor, self, "humidity", 3) # None) =>
                 get_value_opc_attr(sensor, self, "humidity", 3)[1] > 0
        /\ (Read /\ got[1].attr = "dew_point_temperature") =>
              got[1].result.raised = NoException

(***************************************************************************)
(* Properties of the calibration tables of the BME280.                     *)
(***************************************************************************)
CalPopulated ==
    /\ pc = "static" /\ call.fn = "_populate_calibration_data"
    /\ call.result # None

\* The word the registers hold at Python's indices lo, lo + 1 of raw_data.
RawWord(raw_data, lo) == raw_data[lo + 1] + 256 * raw_data[lo + 2]

TwosComplement16(w) == IF w < 32768 THEN w ELSE w - 65536

\* C21: after a successful population dig_T2, dig_T3, dig_P2..dig_P9 and
\* dig_H2 hold the two's-complement value of their registers, in
\* -32768..32767, and dig_T1 and dig_P1 hold the raw word, in 0..65535.
C21_SignedCoefficients ==
    CalPopulated =>
        LET raw == call.arg.raw_data
            tab == call.result[1]
        IN  /\ tab.t[1] = RawWord(raw, 0)
            /\ \A i \in 2..3 :
                  tab.t[i] = TwosComplement16(RawWord(raw, 2 * (i - 1)))
            /\ call.arg.with_pressure =>
                  /\ tab.p[1] = RawWord(raw, 6)
                  /\ \A i \in 2..9 :
                        tab.p[i] = TwosComplement16(RawWord(raw, 2 * i + 4))
            /\ call.arg.with_humidity =>
                  tab.h[2] = TwosComplement16(RawWord(raw, 25))

====
